---- MODULE Spec2Model ----
(***************************************************************************)
(* Model of main.py: the Reddit persona generator.                         *)
(*                                                                         *)
(* A Python str is modelled as a sequence of one-character strings, so     *)
(* that the regular expressions, strip(), replace(), slicing and rsplit()  *)
(* are computed character by character as the interpreter computes them.   *)
(* The fixed pieces of PROMPT_TEMPLATE are single tokens of such a         *)
(* sequence.                                                               *)
(***************************************************************************)
EXTENDS Integers, Sequences, FiniteSets, TLC

(***************************************************************************)
(* Bounds of the model.                                                    *)
(***************************************************************************)
\* largest value of --posts / --comments explored
MaxLimit == 2
\* largest number of submissions / comments the platform holds for the user
MaxAvail == 2
\* longest user segment of the URLs given to extract_username
MaxNameLen == 3
\* longest text given to post_process_persona
MaxTextLen == 5
\* number of runs of equal characters an item body is made of
MaxRuns == 3
\* how many times post_process_persona is applied to its own result
MaxApply == 2

(***************************************************************************)
(* Characters.                                                             *)
(***************************************************************************)
Lower == {"a", "b", "c", "d", "e", "f", "g", "h", "i", "j", "k", "l", "m",
          "n", "o", "p", "q", "r", "s", "t", "u", "v", "w", "x", "y", "z"}
Upper == {"A", "B", "C", "D", "E", "F", "G", "H", "I", "J", "K", "L", "M",
          "N", "O", "P", "Q", "R", "S", "T", "U", "V", "W", "X", "Y", "Z"}
Digits == {"0", "1", "2", "3", "4", "5", "6", "7", "8", "9"}
\* what str.strip() with no argument removes
Whitespace == {" ", "\n", "\t", "\r"}
\* the single character U+2026 appended by section() on truncation
Ellipsis == "U+2026"

\* regex class [\w-] of extract_username
UserChar(c) == c \in Lower \cup Upper \cup Digits \cup {"_", "-"}
\* regex class [A-Za-z &] of post_process_persona
HeadingChar(c) == c \in Lower \cup Upper \cup {" ", "&"}

(***************************************************************************)
(* String helpers (Python built-ins).                                      *)
(***************************************************************************)
\* s[:n]
Take(s, n) == IF n >= Len(s) THEN s ELSE SubSeq(s, 1, n)
\* s[n:]
Drop(s, n) == IF n >= Len(s) THEN <<>> ELSE SubSeq(s, n + 1, Len(s))
\* c * n
Rep(c, n) == [i \in 1..n |-> c]

\* str.strip()
Strip(s) ==
    IF \A i \in 1..Len(s) : s[i] \in Whitespace THEN <<>>
    ELSE LET first == CHOOSE i \in 1..Len(s) :
                          /\ s[i] \notin Whitespace
                          /\ \A j \in 1..(i - 1) : s[j] \in Whitespace
             last  == CHOOSE i \in 1..Len(s) :
                          /\ s[i] \notin Whitespace
                          /\ \A j \in (i + 1)..Len(s) : s[j] \in Whitespace
         IN  SubSeq(s, first, last)

\* s.replace("\n", " ")
ReplaceNewlines(s) == [i \in 1..Len(s) |-> IF s[i] = "\n" THEN " " ELSE s[i]]

\* s.rsplit(" ", 1)[0]
RsplitHead(s) ==
    IF \A i \in 1..Len(s) : s[i] # " " THEN s
    ELSE LET last == CHOOSE i \in 1..Len(s) :
                         /\ s[i] = " "
                         /\ \A j \in (i + 1)..Len(s) : s[j] # " "
         IN  Take(s, last - 1)

\* sep.join(parts)
RECURSIVE Join(_, _)
Join(sep, parts) ==
    IF parts = <<>> THEN <<>>
    ELSE IF Len(parts) = 1 THEN parts[1]
    ELSE parts[1] \o sep \o Join(sep, Tail(parts))

(***************************************************************************)
(* extract_username                                                        *)
(***************************************************************************)
\* the literal part of the pattern r"reddit\.com/user/([\w-]+)/?"
UserPathLiteral == <<"r", "e", "d", "d", "i", "t", ".", "c", "o", "m", "/",
                     "u", "s", "e", "r", "/">>

\* length of the longest run of [\w-] starting at position p of s
UserRun(s, p) ==
    CHOOSE k \in 0..(Len(s) - p + 1) :
        /\ \A i \in p..(p + k - 1) : UserChar(s[i])
        /\ (p + k > Len(s) \/ ~UserChar(s[p + k]))

\* the pattern matches at position i: the literal, then at least one [\w-]
PatternMatchesAt(url, i) ==
    /\ i + Len(UserPathLiteral) <= Len(url)
    /\ SubSeq(url, i, i + Len(UserPathLiteral) - 1) = UserPathLiteral
    /\ UserChar(url[i + Len(UserPathLiteral)])

\* re.search(pattern, url) is not None
UrlMatches(url) == \E i \in 1..Len(url) : PatternMatchesAt(url, i)

\* match.group(1) of the leftmost match (the group is greedy)
extract_username(url) ==
    LET i == CHOOSE j \in 1..Len(url) :
                 /\ PatternMatchesAt(url, j)
                 /\ \A h \in 1..(j - 1) : ~PatternMatchesAt(url, h)
        p == i + Len(UserPathLiteral)
    IN  SubSeq(url, p, p + UserRun(url, p) - 1)

(***************************************************************************)
(* build_prompt                                                            *)
(***************************************************************************)
\* the length above which section() truncates an item
TRUNCATE_AT == 300

\* the fixed pieces of PROMPT_TEMPLATE between its four substitution points
TemplateHead == "\nAnalyze the following Reddit user's posts and comments to generate a detailed user persona.\nFor each trait or insight, cite the source post or comment (full text or snippet) in the format: [source: ...].\n\nUser: "
TemplatePosts == "\n\nPosts:\n"
TemplateComments == "\n\nComments:\n"
TemplateExample == "\n\nOutput format example:\nUser Persona: "
TemplateTail == "\n\n**Personality:** ... [source: ...]\n**Interests:** ... [source: ...]\n**Tone:** ... [source: ...]\n**Values & Communication:** ... [source: ...]\n\nBe concise but insightful.\n"

\* " ".join(item.get(k, "") for k in key_names if item.get(k))
Snippet(item, key_names) ==
    LET present == SelectSeq(key_names,
                       LAMBDA k : k \in DOMAIN item /\ item[k] # <<>>)
    IN  Join(<<" ">>, [i \in 1..Len(present) |-> item[present[i]]])

\* snippet.replace("\n", " ").strip()
Clean(item, key_names) == Strip(ReplaceNewlines(Snippet(item, key_names)))

\* Truncate cutting at 300 characters without going back to the last space
Truncate_HardCut(clean) ==
    IF Len(clean) > TRUNCATE_AT
    THEN Take(clean, TRUNCATE_AT) \o <<Ellipsis>>
    ELSE clean

\* if len(clean) > 300: clean = clean[:300].rsplit(" ", 1)[0] + "..."
Truncate(clean) ==
    IF Len(clean) > TRUNCATE_AT
    THEN RsplitHead(Take(clean, TRUNCATE_AT)) \o <<Ellipsis>>
    ELSE clean

\* one rendered line: f"- {clean}"
Bullet(item, key_names) == <<"-", " ">> \o Truncate(Clean(item, key_names))

\* the nested function section(items, key_names)
section(items, key_names) ==
    Join(<<"\n">>, [i \in 1..Len(items) |-> Bullet(items[i], key_names)])

build_prompt(ps, cs, username) ==
    <<TemplateHead>> \o username
        \o <<TemplatePosts>> \o section(ps, <<"title", "body">>)
        \o <<TemplateComments>> \o section(cs, <<"body">>)
        \o <<TemplateExample>> \o username \o <<TemplateTail>>

(***************************************************************************)
(* post_process_persona                                                    *)
(***************************************************************************)
\* AtLineStart without re.MULTILINE: only the start of the text
AtLineStart_NoMultiline(s, p) == p = 1

\* ^ under re.MULTILINE: the start of the text or just after a newline
AtLineStart(s, p) == p = 1 \/ s[p - 1] = "\n"

\* length of the longest run of [A-Za-z &] starting at position p of s
HeadingRun(s, p) ==
    CHOOSE k \in 0..(Len(s) - p + 1) :
        /\ \A i \in p..(p + k - 1) : HeadingChar(s[i])
        /\ (p + k > Len(s) \/ ~HeadingChar(s[p + k]))

\* r"^([A-Za-z &]+):" matches at position p
HeadingMatchesAt(s, p) ==
    /\ AtLineStart(s, p)
    /\ HeadingRun(s, p) >= 1
    /\ p + HeadingRun(s, p) <= Len(s)
    /\ s[p + HeadingRun(s, p)] = ":"

\* repl without the leading asterisks
repl_NoLeadingStars(group1) == group1 \o <<":", "*", "*">>

\* repl(match): f"**{match.group(1)}:**"
repl(group1) == <<"*", "*">> \o group1 \o <<":", "*", "*">>

\* re.sub scanning s from position p: non-overlapping matches, left to right
RECURSIVE SubFrom(_, _)
SubFrom(s, p) ==
    IF p > Len(s) THEN <<>>
    ELSE IF HeadingMatchesAt(s, p)
         THEN LET k == HeadingRun(s, p)
              IN  repl(SubSeq(s, p, p + k - 1)) \o SubFrom(s, p + k + 1)
         ELSE <<s[p]>> \o SubFrom(s, p + 1)

post_process_persona(text) == SubFrom(text, 1)

(***************************************************************************)
(* The state of one process invocation.                                    *)
(***************************************************************************)
VARIABLES
    pc,             \* the statement the process is at
    url,            \* args.url
    post_limit,     \* args.posts
    comment_limit,  \* args.comments
    creds_set,      \* REDDIT_CLIENT_ID, _SECRET and _USER_AGENT are all set
    api_key_set,    \* GEMINI_API_KEY is set and not empty
    avail_posts,    \* the user's submissions on the platform, newest first
    avail_comments, \* the user's comments on the platform, newest first
    sub_yielded,    \* how many submissions the listing has handed out
    com_yielded,    \* how many comments the listing has handed out
    fetch_raised,   \* the except branch of fetch_user_content was taken
    user,           \* main's user / run's username
    f_posts,        \* fetch_user_content's local posts
    f_comments,     \* fetch_user_content's local comments
    posts,          \* run's posts
    comments,       \* run's comments
    prompt,         \* run's prompt
    persona,        \* run's persona / save_persona's persona
    files,          \* the working directory: a set of <<name, content>>
    exit_code,      \* <<>> while running, <<status>> once exited
    calls,          \* the calls made so far, in order
    pp_hist         \* a text and the results of post-processing it repeatedly

vars == <<pc, url, post_limit, comment_limit, creds_set, api_key_set,
          avail_posts, avail_comments, sub_yielded, com_yielded, fetch_raised,
          user, f_posts, f_comments, posts, comments, prompt, persona, files,
          exit_code, calls, pp_hist>>

args == <<url, post_limit, comment_limit>>
env == <<creds_set, api_key_set>>
platform == <<avail_posts, avail_comments>>
listing == <<sub_yielded, com_yielded>>
fetch_locals == <<f_posts, f_comments, fetch_raised>>
run_locals == <<posts, comments, prompt, persona>>

(***************************************************************************)
(* Inputs.                                                                 *)
(***************************************************************************)
UrlKojied == <<"h", "t", "t", "p", "s", ":", "/", "/", "r", "e", "d", "d",
               "i", "t", ".", "c", "o", "m", "/", "u", "s", "e", "r", "/",
               "k", "o", "j", "i", "e", "d", "/">>
UrlWww == <<"h", "t", "t", "p", "s", ":", "/", "/", "w", "w", "w", ".", "r",
            "e", "d", "d", "i", "t", ".", "c", "o", "m", "/", "u", "s", "e",
            "r", "/", "a", "_", "b">>
UrlShortPath == <<"h", "t", "t", "p", "s", ":", "/", "/", "r", "e", "d", "d",
                  "i", "t", ".", "c", "o", "m", "/", "u", "/", "k", "o", "j",
                  "i", "e", "d", "/">>
UrlNoUser == <<"h", "t", "t", "p", "s", ":", "/", "/", "r", "e", "d", "d",
               "i", "t", ".", "c", "o", "m", "/", "u", "s", "e", "r", "/">>
RunUrls == {UrlKojied, UrlWww, UrlShortPath, UrlNoUser}

\* the i-th newest submission of the user (title, selftext)
SubmissionAt(i) ==
    IF i = 1 THEN [title |-> <<"H", "e", "l", "l", "o">>,
                   selftext |-> <<"W", "o", "r", "l", "d">>]
    ELSE [title |-> <<"L", "i", "n", "k">> \o Rep("k", i), selftext |-> <<>>]
\* the i-th newest comment of the user (body)
CommentAt(i) ==
    IF i = 1 THEN [body |-> <<"N", "i", "c", "e", "!">>]
    ELSE [body |-> <<"o", "k", "\n">> \o Rep("k", i)]

\* what response.text can be
ResponseFriendly == <<"P", "e", "r", "s", "o", "n", "a", "l", "i", "t", "y",
                      ":", " ", "f", "r", "i", "e", "n", "d", "l", "y">>
ResponseTwoLines == <<" ", "T", "o", "n", "e", ":", " ", "d", "r", "y", "\n",
                      "p", "l", "a", "i", "n", " ", "t", "e", "x", "t", "\n">>
ResponseBold == <<"*", "*", "I", "n", "t", "e", "r", "e", "s", "t", "s", ":",
                  "*", "*", " ", "c", "h", "e", "s", "s">>
ResponseAmpersand == <<"V", "a", "l", "u", "e", "s", " ", "&", " ", "C", "o",
                       "m", ":", " ", "x", "\n", "1", ":", " ", "y">>
Responses == {ResponseFriendly, ResponseTwoLines, ResponseBold}

\* f"{username}_persona.txt"
PersonaFilename(username) ==
    username \o <<"_", "p", "e", "r", "s", "o", "n", "a", ".", "t", "x", "t">>

OldContent == <<"o", "l", "d">>
\* the working directory may already hold a persona file
InitialFiles == {{}, {<<PersonaFilename(<<"k", "o", "j", "i", "e", "d">>),
                       OldContent>>}}

(***************************************************************************)
(* Initial state: the arguments are parsed, main() is about to call        *)
(* extract_username.                                                       *)
(***************************************************************************)
LocalsEmpty ==
    /\ sub_yielded = 0 /\ com_yielded = 0 /\ fetch_raised = FALSE
    /\ f_posts = <<>> /\ f_comments = <<>>
    /\ posts = <<>> /\ comments = <<>>
    /\ prompt = <<>> /\ persona = <<>>
    /\ exit_code = <<>> /\ calls = <<>> /\ pp_hist = <<>>

Init ==
    /\ pc = "main"
    /\ url \in RunUrls
    /\ post_limit \in 0..MaxLimit
    /\ comment_limit \in 0..MaxLimit
    /\ creds_set \in BOOLEAN
    /\ api_key_set \in BOOLEAN
    /\ avail_posts \in {[i \in 1..n |-> SubmissionAt(i)] : n \in 0..MaxAvail}
    /\ avail_comments \in {[i \in 1..n |-> CommentAt(i)] : n \in 0..MaxAvail}
    /\ files \in InitialFiles
    /\ user = <<>>
    /\ LocalsEmpty

(***************************************************************************)
(* sys.exit(status)                                                        *)
(***************************************************************************)
Exit(status) == pc' = "exit" /\ exit_code' = <<status>>

\* Main with the except branch only logging: the run goes on
Main_NoExit ==
    /\ pc = "main"
    /\ user' = IF UrlMatches(url) THEN extract_username(url) ELSE <<>>
    /\ pc' = "load_reddit"
    /\ calls' = Append(calls, "extract_username")
    /\ UNCHANGED <<args, env, platform, listing, fetch_locals, run_locals,
                   files, exit_code, pp_hist>>

(***************************************************************************)
(* main(): extract_username, then run() or exit 1.                         *)
(***************************************************************************)
Main ==
    /\ pc = "main"
    /\ \/ /\ UrlMatches(url)
          /\ user' = extract_username(url)
          /\ pc' = "load_reddit"
          /\ UNCHANGED exit_code
       \/ /\ ~UrlMatches(url)
          /\ Exit(1)
          /\ UNCHANGED user
    /\ calls' = Append(calls, "extract_username")
    /\ UNCHANGED <<args, env, platform, listing, fetch_locals, run_locals,
                   files, pp_hist>>

(***************************************************************************)
(* load_reddit_instance()                                                  *)
(***************************************************************************)
LoadRedditInstance ==
    /\ pc = "load_reddit"
    /\ \/ /\ creds_set
          /\ calls' = Append(calls, "praw.Reddit")
          /\ pc' = "fetch"
          /\ UNCHANGED exit_code
       \/ /\ ~creds_set
          /\ Exit(1)
          /\ UNCHANGED calls
    /\ UNCHANGED <<args, env, platform, listing, fetch_locals, run_locals,
                   files, user, pp_hist>>

(***************************************************************************)
(* fetch_user_content()                                                    *)
(***************************************************************************)
\* posts, comments = [], []; user = reddit.redditor(username)
FetchEnter ==
    /\ pc = "fetch"
    /\ f_posts' = <<>> /\ f_comments' = <<>>
    /\ calls' = Append(calls, "fetch_user_content")
    /\ pc' = "fetch_posts"
    /\ UNCHANGED <<args, env, platform, listing, fetch_raised, run_locals,
                   files, user, exit_code, pp_hist>>

\* the listing hands out at most limit items
ListingHasNext(yielded, limit, avail) ==
    yielded < limit /\ yielded < Len(avail)

\* one iteration of: for sub in user.submissions.new(limit=post_limit)
FetchPost ==
    /\ pc = "fetch_posts"
    /\ ListingHasNext(sub_yielded, post_limit, avail_posts)
    /\ sub_yielded' = sub_yielded + 1
    /\ f_posts' = Append(f_posts,
                     [title |-> avail_posts[sub_yielded + 1].title,
                      body |-> avail_posts[sub_yielded + 1].selftext])
    /\ UNCHANGED <<pc, args, env, platform, com_yielded, f_comments,
                   fetch_raised, run_locals, files, user, exit_code, calls,
                   pp_hist>>

\* the submissions listing is exhausted
FetchPostsEnd ==
    /\ pc = "fetch_posts"
    /\ ~ListingHasNext(sub_yielded, post_limit, avail_posts)
    /\ pc' = "fetch_comments"
    /\ UNCHANGED <<args, env, platform, listing, fetch_locals, run_locals,
                   files, user, exit_code, calls, pp_hist>>

\* one iteration of: for com in user.comments.new(limit=comment_limit)
FetchComment ==
    /\ pc = "fetch_comments"
    /\ ListingHasNext(com_yielded, comment_limit, avail_comments)
    /\ com_yielded' = com_yielded + 1
    /\ f_comments' = Append(f_comments,
                        [body |-> avail_comments[com_yielded + 1].body])
    /\ UNCHANGED <<pc, args, env, platform, sub_yielded, f_posts,
                   fetch_raised, run_locals, files, user, exit_code, calls,
                   pp_hist>>

\* the comments listing is exhausted; logging.info
FetchCommentsEnd ==
    /\ pc = "fetch_comments"
    /\ ~ListingHasNext(com_yielded, comment_limit, avail_comments)
    /\ pc' = "fetch_return"
    /\ UNCHANGED <<args, env, platform, listing, fetch_locals, run_locals,
                   files, user, exit_code, calls, pp_hist>>

\* FetchExcept with a handler that throws away what was gathered
FetchExcept_Discard ==
    /\ pc \in {"fetch_posts", "fetch_comments"}
    /\ fetch_raised' = TRUE
    /\ f_posts' = <<>> /\ f_comments' = <<>>
    /\ pc' = "fetch_return"
    /\ UNCHANGED <<args, env, platform, listing, run_locals, files, user,
                   exit_code, calls, pp_hist>>

\* any request of the try block raises: except Exception, logging.exception
FetchExcept ==
    /\ pc \in {"fetch_posts", "fetch_comments"}
    /\ fetch_raised' = TRUE
    /\ pc' = "fetch_return"
    /\ UNCHANGED <<args, env, platform, listing, f_posts, f_comments,
                   run_locals, files, user, exit_code, calls, pp_hist>>

\* return posts, comments
FetchReturn ==
    /\ pc = "fetch_return"
    /\ posts' = f_posts
    /\ comments' = f_comments
    /\ pc' = "check_content"
    /\ UNCHANGED <<args, env, platform, listing, fetch_locals, prompt,
                   persona, files, user, exit_code, calls, pp_hist>>

(***************************************************************************)
(* run(): the steps after the fetch.                                       *)
(***************************************************************************)
\* CheckContent without the sys.exit(1): the error is only logged
CheckContent_NoExit ==
    /\ pc = "check_content"
    /\ pc' = "build_prompt"
    /\ UNCHANGED <<args, env, platform, listing, fetch_locals, run_locals,
                   files, user, exit_code, calls, pp_hist>>

\* if not posts and not comments: sys.exit(1)
CheckContent ==
    /\ pc = "check_content"
    /\ \/ /\ posts = <<>> /\ comments = <<>>
          /\ Exit(1)
       \/ /\ ~(posts = <<>> /\ comments = <<>>)
          /\ pc' = "build_prompt"
          /\ UNCHANGED exit_code
    /\ UNCHANGED <<args, env, platform, listing, fetch_locals, run_locals,
                   files, user, calls, pp_hist>>

\* prompt = build_prompt(posts, comments, username)
BuildPrompt ==
    /\ pc = "build_prompt"
    /\ prompt' = build_prompt(posts, comments, user)
    /\ calls' = Append(calls, "build_prompt")
    /\ pc' = "call_gemini"
    /\ UNCHANGED <<args, env, platform, listing, fetch_locals, posts,
                   comments, persona, files, user, exit_code, pp_hist>>

\* call_gemini_api(): the key check
CallGeminiApi ==
    /\ pc = "call_gemini"
    /\ calls' = Append(calls, "call_gemini_api")
    /\ \/ /\ api_key_set
          /\ pc' = "generate"
          /\ UNCHANGED exit_code
       \/ /\ ~api_key_set
          /\ Exit(1)
    /\ UNCHANGED <<args, env, platform, listing, fetch_locals, run_locals,
                   files, user, pp_hist>>

\* GenerateContent with a handler that returns an empty text instead of exiting
GenerateContent_Swallow ==
    /\ pc = "generate"
    /\ \/ \E text \in Responses :
              /\ persona' = Strip(text)
              /\ calls' = Append(calls, "generate_content")
       \/ /\ calls' = calls \o <<"generate_content", "generate_content raised">>
          /\ persona' = <<>>
    /\ pc' = "save_persona"
    /\ UNCHANGED <<args, env, platform, listing, fetch_locals, posts,
                   comments, prompt, files, user, exit_code, pp_hist>>

\* GenerateContent with a handler that tries the call once more
GenerateContent_Retry ==
    /\ pc = "generate"
    /\ \/ \E text \in Responses :
              /\ persona' = Strip(text)
              /\ calls' = Append(calls, "generate_content")
              /\ pc' = "save_persona"
              /\ UNCHANGED exit_code
       \/ /\ Len(SelectSeq(calls, LAMBDA c : c = "generate_content")) = 0
          /\ calls' = calls \o <<"generate_content">>
          /\ UNCHANGED <<pc, exit_code, persona>>
       \/ /\ Len(SelectSeq(calls, LAMBDA c : c = "generate_content")) > 0
          /\ calls' = calls \o <<"generate_content", "generate_content raised">>
          /\ Exit(1)
          /\ UNCHANGED persona
    /\ UNCHANGED <<args, env, platform, listing, fetch_locals, posts,
                   comments, prompt, files, user, pp_hist>>

\* call_gemini_api(): model.generate_content(prompt) inside its try block
GenerateContent ==
    /\ pc = "generate"
    /\ \/ \E text \in Responses :
              /\ persona' = Strip(text)
              /\ calls' = Append(calls, "generate_content")
              /\ pc' = "save_persona"
              /\ UNCHANGED exit_code
       \/ \* except Exception: logging.exception, sys.exit(1)
          /\ calls' = calls \o <<"generate_content", "generate_content raised">>
          /\ Exit(1)
          /\ UNCHANGED persona
    /\ UNCHANGED <<args, env, platform, listing, fetch_locals, posts,
                   comments, prompt, files, user, pp_hist>>

(***************************************************************************)
(* save_persona()                                                          *)
(***************************************************************************)
\* the directory after open(filename, "w") and f.write(content)
WriteFile(fs, filename, content) ==
    {f \in fs : f[1] # filename} \cup {<<filename, content>>}

\* SavePersona without the except IOError: the error ends the process
SavePersona_Propagates ==
    /\ pc = "save_persona"
    /\ LET processed == post_process_persona(persona)
       IN  \/ /\ files' = WriteFile(files, PersonaFilename(user), processed)
              /\ calls' = calls \o <<"open", "write">>
              /\ pc' = "main_return"
              /\ UNCHANGED exit_code
           \/ /\ files' = WriteFile(files, PersonaFilename(user), <<>>)
              /\ calls' = calls \o <<"open", "IOError">>
              /\ Exit(1)
           \/ /\ files' = files
              /\ calls' = calls \o <<"IOError">>
              /\ Exit(1)
    /\ UNCHANGED <<args, env, platform, listing, fetch_locals, run_locals,
                   user, pp_hist>>

\* save_persona's own persona is the post-processed text; run's is untouched
SavePersona ==
    /\ pc = "save_persona"
    /\ LET processed == post_process_persona(persona)
       IN  \/ \* open and write succeed
              /\ files' = WriteFile(files, PersonaFilename(user), processed)
              /\ calls' = calls \o <<"open", "write">>
           \/ \* open succeeds and truncates the file, write raises IOError
              /\ files' = WriteFile(files, PersonaFilename(user), <<>>)
              /\ calls' = calls \o <<"open", "IOError">>
           \/ \* open raises IOError
              /\ files' = files
              /\ calls' = calls \o <<"IOError">>
    /\ pc' = "main_return"
    /\ UNCHANGED <<args, env, platform, listing, fetch_locals, run_locals,
                   user, exit_code, pp_hist>>

\* save_persona, run and main return: the interpreter exits with status 0
MainReturn ==
    /\ pc = "main_return"
    /\ Exit(0)
    /\ UNCHANGED <<args, env, platform, listing, fetch_locals, run_locals,
                   files, user, calls, pp_hist>>

Next ==
    \/ Main
    \/ LoadRedditInstance
    \/ FetchEnter
    \/ FetchPost
    \/ FetchPostsEnd
    \/ FetchComment
    \/ FetchCommentsEnd
    \/ FetchExcept
    \/ FetchReturn
    \/ CheckContent
    \/ BuildPrompt
    \/ CallGeminiApi
    \/ GenerateContent
    \/ SavePersona
    \/ MainReturn

Spec == Init /\ [][Next]_vars

\* every call returns or raises: a process that can take a step takes one
FairSpec == Spec /\ WF_vars(Next)

(***************************************************************************)
(* extract_username over a family of URLs: main() up to the call of run(). *)
(***************************************************************************)
Https == <<"h", "t", "t", "p", "s", ":", "/", "/">>
UrlPrefixes ==
    { <<>>,
      Https,
      Https \o <<"w", "w", "w", ".">>,
      Https \o <<"e", ".", "c", "o", "/", "?", "u", "=">>,
      Https \o UserPathLiteral \o <<"/">> }
UrlPaths ==
    { UserPathLiteral,
      <<"r", "e", "d", "d", "i", "t", "X", "c", "o", "m", "/", "u", "s", "e",
        "r", "/">>,
      <<"r", "e", "d", "d", "i", "t", ".", "c", "o", "m", "/", "u", "/">> }
SegmentChars == {"a", "7", "_", "-", "."}
Segments == UNION {[1..n -> SegmentChars] : n \in 0..MaxNameLen}
UrlSuffixes == { <<>>, <<"/">>, <<"/", "x">> }
ParserUrls ==
    { pre \o path \o seg \o suf :
        pre \in UrlPrefixes, path \in UrlPaths, seg \in Segments,
        suf \in UrlSuffixes }

\* the state of a run that has not fetched anything yet
NothingFetched ==
    /\ post_limit = 0 /\ comment_limit = 0
    /\ creds_set = TRUE /\ api_key_set = TRUE
    /\ avail_posts = <<>> /\ avail_comments = <<>>
    /\ files = {}
    /\ LocalsEmpty

InitParser ==
    /\ pc = "main"
    /\ url \in ParserUrls
    /\ user = <<>>
    /\ NothingFetched

SpecParser == InitParser /\ [][Main]_vars

(***************************************************************************)
(* build_prompt over items long enough to be truncated: run() at the call  *)
(* of build_prompt.                                                        *)
(***************************************************************************)
RunChars == {"a", " ", "\n"}
RunLengths == {1, TRUNCATE_AT - 1, TRUNCATE_AT}
\* the texts made of at most n runs of equal characters
RECURSIVE RunTexts(_)
RunTexts(n) ==
    IF n = 0 THEN {<<>>}
    ELSE LET shorter == RunTexts(n - 1)
         IN  shorter \cup { t \o Rep(c, k) :
                              t \in shorter, c \in RunChars, k \in RunLengths }

Kojied == <<"k", "o", "j", "i", "e", "d">>
ShortPost == [title |-> <<"H", "i">>, body |-> <<"a", "\n", "b">>]
LongComment ==
    [body |-> Rep("c", TRUNCATE_AT - 1) \o <<" ">> \o Rep("d", TRUNCATE_AT)]
ShortComment == [body |-> <<" ", "o", "k">>]
BuilderPosts ==
    { <<>> }
        \cup { <<[title |-> t, body |-> b]>> :
                 t \in {<<>>, <<"T">>}, b \in RunTexts(MaxRuns) }
        \cup { <<ShortPost, [title |-> <<"T">>, body |-> b]>> :
                 b \in RunTexts(1) }
BuilderComments == { <<>>, <<LongComment>>, <<ShortComment, LongComment>> }

CallsBefore(stage) ==
    CASE stage = "build_prompt" ->
             <<"extract_username", "praw.Reddit", "fetch_user_content">>
      [] stage = "save_persona" ->
             <<"extract_username", "praw.Reddit", "fetch_user_content",
               "build_prompt", "call_gemini_api", "generate_content">>

InitBuilder ==
    /\ pc = "build_prompt"
    /\ url = UrlKojied /\ user = Kojied
    /\ post_limit = MaxLimit /\ comment_limit = MaxLimit
    /\ creds_set = TRUE /\ api_key_set = TRUE
    /\ avail_posts = <<>> /\ avail_comments = <<>>
    /\ sub_yielded = 0 /\ com_yielded = 0 /\ fetch_raised = FALSE
    /\ posts \in BuilderPosts
    /\ comments \in BuilderComments
    /\ ~(posts = <<>> /\ comments = <<>>)
    /\ f_posts = posts /\ f_comments = comments
    /\ prompt = <<>> /\ persona = <<>>
    /\ files = {}
    /\ exit_code = <<>>
    /\ calls = CallsBefore("build_prompt")
    /\ pp_hist = <<>>

SpecBuilder == InitBuilder /\ [][BuildPrompt]_vars

(***************************************************************************)
(* post_process_persona over all short texts.                              *)
(***************************************************************************)
TextChars == {"A", "&", " ", ":", "*", "\n"}
ShortTexts == UNION {[1..n -> TextChars] : n \in 0..MaxTextLen}
PersonaTexts == ShortTexts \cup Responses \cup {ResponseAmpersand}

\* text = post_process_persona(text)
ApplyPostProcess ==
    /\ pc = "post_process"
    /\ Len(pp_hist) <= MaxApply
    /\ pp_hist' = Append(pp_hist, post_process_persona(pp_hist[Len(pp_hist)]))
    /\ UNCHANGED <<pc, args, env, platform, listing, fetch_locals,
                   run_locals, files, user, exit_code, calls>>

InitPostProcess ==
    /\ pc = "post_process"
    /\ url = <<>> /\ user = <<>>
    /\ post_limit = 0 /\ comment_limit = 0
    /\ creds_set = TRUE /\ api_key_set = TRUE
    /\ avail_posts = <<>> /\ avail_comments = <<>>
    /\ sub_yielded = 0 /\ com_yielded = 0 /\ fetch_raised = FALSE
    /\ f_posts = <<>> /\ f_comments = <<>>
    /\ posts = <<>> /\ comments = <<>>
    /\ prompt = <<>> /\ persona = <<>>
    /\ files = {}
    /\ exit_code = <<>> /\ calls = <<>>
    /\ \E t \in PersonaTexts : pp_hist = <<t>>

SpecPostProcess == InitPostProcess /\ [][ApplyPostProcess]_vars

(***************************************************************************)
(* save_persona over all short generator texts: run() at the call of       *)
(* save_persona, after call_gemini_api returned response.text.strip().     *)
(***************************************************************************)
HelloPost == [title |-> <<"H", "e", "l", "l", "o">>,
              body |-> <<"W", "o", "r", "l", "d">>]
NiceComment == [body |-> <<"N", "i", "c", "e", "!">>]

InitWriter ==
    /\ pc = "save_persona"
    /\ url = UrlKojied /\ user = Kojied
    /\ post_limit = 1 /\ comment_limit = 1
    /\ creds_set = TRUE /\ api_key_set = TRUE
    /\ avail_posts = <<SubmissionAt(1)>> /\ avail_comments = <<CommentAt(1)>>
    /\ sub_yielded = 1 /\ com_yielded = 1 /\ fetch_raised = FALSE
    /\ f_posts = <<HelloPost>> /\ f_comments = <<NiceComment>>
    /\ posts = f_posts /\ comments = f_comments
    /\ prompt = build_prompt(posts, comments, user)
    /\ persona \in {Strip(t) : t \in PersonaTexts}
    /\ files \in InitialFiles
    /\ exit_code = <<>>
    /\ calls = CallsBefore("save_persona")
    /\ pp_hist = <<>>

NextWriter == SavePersona \/ MainReturn

SpecWriter == InitWriter /\ [][NextWriter]_vars

(***************************************************************************)
(* Properties of a run.                                                    *)
(***************************************************************************)
Called(c) == \E i \in 1..Len(calls) : calls[i] = c
Exited(status) == pc = "exit" /\ exit_code = <<status>>
\* nothing opened, nothing written, the directory as it was found
NoFileTouched ==
    ~Called("open") /\ ~Called("write") /\ ~Called("IOError")
        /\ files \in InitialFiles
\* fetch_user_content has returned to run()
FetchReturned ==
    Called("fetch_user_content")
        /\ pc \notin {"fetch_posts", "fetch_comments", "fetch_return"}
\* the dicts built from the first n submissions / comments of the platform
PostsGathered(n) ==
    [i \in 1..n |-> [title |-> avail_posts[i].title,
                     body |-> avail_posts[i].selftext]]
CommentsGathered(n) == [i \in 1..n |-> [body |-> avail_comments[i].body]]

\* C1: when fetch_user_content returns two empty lists the process can only
\* exit with code 1: call_gemini_api is not invoked and no file is written.
C1_EmptyFetchExits ==
    (FetchReturned /\ posts = <<>> /\ comments = <<>>) =>
        /\ pc \in {"check_content", "exit"}
        /\ pc = "exit" => exit_code = <<1>>
        /\ ~Called("build_prompt")
        /\ ~Called("call_gemini_api")
        /\ ~Called("generate_content")
        /\ NoFileTouched

\* the fetch raised before gathering anything although the account has content
C1_Witness ==
    /\ Exited(1) /\ FetchReturned /\ fetch_raised
    /\ posts = <<>> /\ comments = <<>>
    /\ avail_posts # <<>> /\ post_limit > 0

\* C2: a missing API key or a raising generator call ends the process with
\* code 1 and the persona file is not written; with a missing key the
\* generator is not called either.
C2_GeneratorFailureIsFatal ==
    /\ (Called("call_gemini_api") /\ ~api_key_set) =>
           Exited(1) /\ ~Called("generate_content") /\ NoFileTouched
    /\ Called("generate_content raised") => Exited(1) /\ NoFileTouched

\* the generator call was made and raised
C2_Witness ==
    Called("generate_content raised") /\ Exited(1) /\ api_key_set

\* C3: when extract_username fails, the process exits with code 1 and no
\* Reddit client, fetch, generator call or file write happens.
C3_InvalidUrlAborts ==
    (Called("extract_username") /\ ~UrlMatches(url)) =>
        /\ Exited(1)
        /\ calls = <<"extract_username">>
        /\ user = <<>>
        /\ NoFileTouched

\* a URL without the /user/<name> path was given and the process has exited
C3_Witness ==
    url = UrlShortPath /\ Called("extract_username") /\ Exited(1)

\* C4: an error raised during fetch_user_content does not reach the caller:
\* the function returns exactly what was appended before the error, and the
\* run goes on to build_prompt and call_gemini_api when something was
\* gathered.
C4_FetchErrorKeepsPartial ==
    fetch_raised =>
        /\ f_posts = PostsGathered(sub_yielded)
        /\ f_comments = CommentsGathered(com_yielded)
        /\ FetchReturned =>
               /\ posts = PostsGathered(sub_yielded)
               /\ comments = CommentsGathered(com_yielded)
        /\ (pc = "exit" /\ sub_yielded + com_yielded > 0) =>
               Called("build_prompt") /\ Called("call_gemini_api")

\* the comments listing failed after all posts were gathered
C4_Witness ==
    /\ fetch_raised /\ pc = "exit"
    /\ Len(posts) >= 1 /\ Len(posts) = Len(avail_posts)
    /\ comments = <<>> /\ avail_comments # <<>> /\ comment_limit > 0
    /\ Called("call_gemini_api")

\* C5: an I/O error while writing the persona file is caught in save_persona:
\* the run still ends with exit code 0.
C5_WriteFailureExitsZero ==
    Called("IOError") =>
        /\ pc \in {"main_return", "exit"}
        /\ pc = "exit" => exit_code = <<0>>

\* the generator succeeded, the write failed, the process exited with 0
C5_Witness ==
    /\ Called("generate_content") /\ ~Called("generate_content raised")
    /\ Called("IOError") /\ ~Called("write") /\ Exited(0)

\* the order of the stages of a run
StageOf(c) ==
    CASE c = "extract_username" -> 1
      [] c = "praw.Reddit" -> 2
      [] c = "fetch_user_content" -> 3
      [] c = "build_prompt" -> 4
      [] c = "call_gemini_api" -> 5
      [] c = "generate_content" -> 6
      [] c = "generate_content raised" -> 7
      [] c = "open" -> 8
      [] c = "write" -> 9
      [] c = "IOError" -> 9

\* every stage at most once, in pipeline order, each after the one before it
LinearPass ==
    /\ \A i, j \in 1..Len(calls) : i < j => StageOf(calls[i]) < StageOf(calls[j])
    /\ Called("fetch_user_content") => Called("extract_username")
    /\ Called("build_prompt") => FetchReturned
    /\ Called("call_gemini_api") => Called("build_prompt")
    /\ Called("generate_content") => Called("call_gemini_api")
    /\ Called("open") => Called("generate_content")
    /\ Called("write") =>
           Called("generate_content") /\ ~Called("generate_content raised")
    /\ pc = "exit" => exit_code \in {<<0>>, <<1>>}

Between(p, from, to) ==
    LET i == CHOOSE k \in 1..Len(p) : p[k] = from
        j == CHOOSE k \in 1..Len(p) : p[k] = to
    IN  SubSeq(p, i + 1, j - 1)
PostsSection(p) == Between(p, TemplatePosts, TemplateComments)
CommentsSection(p) == Between(p, TemplateComments, TemplateExample)

\* the positions of the newlines of s, and its n-th line
Newlines(s) == {i \in 1..Len(s) : s[i] = "\n"}
NthNewline(s, n) ==
    CHOOSE i \in Newlines(s) : Cardinality({j \in Newlines(s) : j < i}) = n - 1
NthLine(s, n) ==
    LET from == IF n = 1 THEN 1 ELSE NthNewline(s, n - 1) + 1
        to == IF n = Cardinality(Newlines(s)) + 1 THEN Len(s)
              ELSE NthNewline(s, n) - 1
    IN  SubSeq(s, from, to)

\* the text of the n-th bullet of a section, after its "- "
BulletText(sec, n) == Drop(NthLine(sec, n), 2)
IsBullet(sec, n) == Take(NthLine(sec, n), 2) = <<"-", " ">>

\* cutting text after its first k characters cuts it at a space (or its end)
AtWordBoundary(text, k) == k >= Len(text) \/ text[k + 1] = " "

\* the claimed law for one item: text is its cleaned text, shown its rendering
TruncationLawAsClaimed(text, shown) ==
    IF Len(text) <= TRUNCATE_AT THEN shown = text
    ELSE LET k == Len(shown) - 1
         IN  /\ k \in 0..TRUNCATE_AT
             /\ shown = Take(text, k) \o <<Ellipsis>>
             /\ AtWordBoundary(text, k)

\* the law the code obeys: the cut is before the last space of the first 300
\* characters, and at 300 characters when they hold no space
TruncationLaw(text, shown) ==
    IF Len(text) <= TRUNCATE_AT THEN shown = text
    ELSE LET k == Len(shown) - 1
         IN  /\ k \in 0..TRUNCATE_AT
             /\ shown = Take(text, k) \o <<Ellipsis>>
             /\ \/ /\ k < TRUNCATE_AT
                   /\ text[k + 1] = " "
                   /\ \A i \in (k + 2)..TRUNCATE_AT : text[i] # " "
                \/ /\ k = TRUNCATE_AT
                   /\ \A i \in 1..TRUNCATE_AT : text[i] # " "

\* a law holds of every bullet of both sections of the prompt
EveryBullet(Law(_, _)) ==
    /\ \A n \in 1..Len(posts) :
           /\ IsBullet(PostsSection(prompt), n)
           /\ Law(Clean(posts[n], <<"title", "body">>),
                  BulletText(PostsSection(prompt), n))
    /\ \A n \in 1..Len(comments) :
           /\ IsBullet(CommentsSection(prompt), n)
           /\ Law(Clean(comments[n], <<"body">>),
                  BulletText(CommentsSection(prompt), n))

\* C6 as claimed: a cleaned text longer than 300 characters is rendered as a
\* prefix of at most 300 characters ending at a word boundary, then the
\* marker; a shorter one is rendered verbatim.
C6_TruncationAsClaimed ==
    Called("build_prompt") => EveryBullet(TruncationLawAsClaimed)

\* C6 amended: a cleaned text longer than 300 characters is rendered as its
\* prefix up to the last space among its first 300 characters, or as its
\* first 300 characters when there is no space among them (a cut inside a
\* word), then the marker; a shorter one is rendered verbatim.
C6_Truncation ==
    Called("build_prompt") => EveryBullet(TruncationLaw)

\* a post of more than 300 characters whose first 300 hold no space, and a
\* comment cut at a space, have been rendered
C6_Witness ==
    /\ Called("build_prompt")
    /\ Len(posts) = 1 /\ Len(comments) >= 1
    /\ LET text == Clean(posts[1], <<"title", "body">>)
       IN  /\ Len(text) > TRUNCATE_AT
           /\ \A i \in 1..TRUNCATE_AT : text[i] # " "
           /\ text[TRUNCATE_AT + 1] # " "
           /\ Len(BulletText(PostsSection(prompt), 1)) = TRUNCATE_AT + 1
    /\ \E n \in 1..Len(comments) :
           Len(BulletText(CommentsSection(prompt), n)) = TRUNCATE_AT

(***************************************************************************)
(* Properties of post_process_persona and save_persona.                    *)
(***************************************************************************)
\* C7: post_process_persona is idempotent, and a one-line text that already
\* starts with ** is left unchanged.
C7_PostProcessIdempotent ==
    /\ \A i \in 2..(Len(pp_hist) - 1) : pp_hist[i + 1] = pp_hist[i]
    /\ (/\ Len(pp_hist) >= 2
        /\ Take(pp_hist[1], 2) = <<"*", "*">>
        /\ Newlines(pp_hist[1]) = {}) => pp_hist[2] = pp_hist[1]

\* a text with a heading on its second line was rewritten, then processed again
C7_Witness ==
    /\ Len(pp_hist) >= 3
    /\ pp_hist[1] = <<"*", "\n", "A", ":">>
    /\ pp_hist[2] = <<"*", "\n", "*", "*", "A", ":", "*", "*">>

\* the lines of a text
Lines(s) == [n \in 1..(Cardinality(Newlines(s)) + 1) |-> NthLine(s, n)]
IsHeadingLetter(c) == c \in Lower \cup Upper \cup {" ", "&"}
\* a line begins with a run of letters, spaces or ampersands, then a colon
HeadingColon(line) ==
    IF \E k \in 2..Len(line) :
           line[k] = ":" /\ \A i \in 1..(k - 1) : IsHeadingLetter(line[i])
    THEN CHOOSE k \in 2..Len(line) :
             line[k] = ":" /\ \A i \in 1..(k - 1) : IsHeadingLetter(line[i])
    ELSE 0
\* the line with its heading, if it has one, set in bold
BoldLine(line) ==
    IF HeadingColon(line) = 0 THEN line
    ELSE <<"*", "*">> \o Take(line, HeadingColon(line)) \o <<"*", "*">>
             \o Drop(line, HeadingColon(line))
BoldHeadings(text) ==
    Join(<<"\n">>, [n \in 1..Len(Lines(text)) |-> BoldLine(Lines(text)[n])])

\* C10: after a successful write the file {username}_persona.txt holds the
\* generator's text with every heading line (letters, spaces, ampersands,
\* then a colon, at the start of a line) rewritten to **heading:** and
\* everything else unchanged.
C10_FileIsBoldedPersona ==
    Called("write") =>
        /\ <<PersonaFilename(user), BoldHeadings(persona)>> \in files
        /\ \A f \in files :
               f[1] = PersonaFilename(user) => f[2] = BoldHeadings(persona)

\* the scenario of the specification: Personality: friendly for user kojied
C10_Witness ==
    /\ Exited(0) /\ Called("write")
    /\ user = Kojied /\ persona = ResponseFriendly
    /\ <<<<"k", "o", "j", "i", "e", "d", "_", "p", "e", "r", "s", "o", "n",
           "a", ".", "t", "x", "t">>,
         <<"*", "*", "P", "e", "r", "s", "o", "n", "a", "l", "i", "t", "y",
           ":", "*", "*", " ", "f", "r", "i", "e", "n", "d", "l", "y">>>>
           \in files

(***************************************************************************)
(* Properties of extract_username.                                         *)
(***************************************************************************)
\* u is reddit.com/user/<name> for a non-empty name of [\w-], after nothing
\* or an https origin and before nothing or one slash
ProfileOrigins == { <<>>, Https, Https \o <<"w", "w", "w", ".">> }
ProfileNameOf(u, origin, slash) ==
    SubSeq(u, Len(origin) + Len(UserPathLiteral) + 1, Len(u) - Len(slash))
HasProfilePath(u, origin, slash) ==
    /\ Len(u) > Len(origin) + Len(UserPathLiteral) + Len(slash)
    /\ Take(u, Len(origin) + Len(UserPathLiteral)) = origin \o UserPathLiteral
    /\ Drop(u, Len(u) - Len(slash)) = slash
    /\ \A i \in 1..Len(ProfileNameOf(u, origin, slash)) :
           UserChar(ProfileNameOf(u, origin, slash)[i])
IsProfileUrl(u) ==
    \E origin \in ProfileOrigins, slash \in {<<>>, <<"/">>} :
        HasProfilePath(u, origin, slash)
ProfileName(u) ==
    LET os == CHOOSE os \in ProfileOrigins \X {<<>>, <<"/">>} :
                  HasProfilePath(u, os[1], os[2])
    IN  ProfileNameOf(u, os[1], os[2])

\* C8: extract_username returns <name> for every URL of the form
\* https://reddit.com/user/<name>/ and fails for every URL without this path
\* shape, also when the user segment holds other characters or the pattern
\* is only a substring of the URL.  (Read generously: the scheme, a www.
\* host and the final slash are optional.)
C8_ExactProfileUrls ==
    Called("extract_username") =>
        IF IsProfileUrl(url)
        THEN pc = "load_reddit" /\ user = ProfileName(url)
        ELSE Exited(1)

====
